---- MODULE Spec2Model ----
(***************************************************************************)
(* Dispatch: scraping orchestration and caching pipeline.                  *)
(*                                                                         *)
(* The module models, from the Python sources under src/dispatch:          *)
(*   - security/rate_limiter.py   RateLimiter.allow                        *)
(*   - telemetry/events.py        TelemetryClient.record                   *)
(*   - scraping/service.py        ScraperRegistry, collect_from_scraper    *)
(*   - api/main.py                get_products, run_scraping_cycle,        *)
(*                                background_scraper_loop                  *)
(*   - db/session.py, db/repository.py, db/models.py  the product store    *)
(*                                                                         *)
(* All tasks run on one asyncio event loop: a task runs without            *)
(* interruption from one suspension point (an await that really waits)     *)
(* to the next, and each action below is one such stretch of code.         *)
(***************************************************************************)
EXTENDS Integers, Sequences, FiniteSets, TLC

(***************************************************************************)
(* Bounds of the model.                                                    *)
(***************************************************************************)
\* Largest clock reading.
MaxTime == 4
\* Number of allow() calls over a run of the limiter.
MaxCalls == 4
\* RateLimiter(max_requests=settings.request_rate_per_minute), scaled down.
max_requests == 2
\* RateLimiter.__init__(window_seconds=60), scaled down.
window_seconds == 2

\* Longest batch handed to upsert_products.
MaxItems == 2
\* Number of _persist_results calls over a run of the store on its own.
MaxBatches == 2
\* Number of scheduler cycles over a run.
MaxCycles == 2
\* Events recorded with the telemetry client on its own.
MaxEvents == 3
\* settings.scrape_interval_seconds, in clock ticks.
scrape_interval_seconds == 1
\* Calls of start() made on one telemetry client.
MaxStarts == 3

\* Request-handling tasks that call the limiter, and client identifiers.
Callers == {"t1", "t2"}
Identifiers == {"10.0.0.1", "anonymous"}

NoOne == "none"

\* ScraperRegistry._scrapers: the providers create_registry() registers.
Scrapers == {"complexshop", "universalstore", "goat"}
\* A provider name no scraper is registered under.
Names == Scrapers \cup {"nike"}

\* Listing urls and listing contents (name, price, ... as scraped).
Urls == {"/p/1", "/p/2"}
Contents == {1, 2}
\* limit: Optional[int] = Query(None, ge=1, le=100); <<>> stands for None.
NoLimit == <<>>
Limits == {NoLimit, <<1>>, <<2>>}

VARIABLES
    clock,      \* time.monotonic() / datetime.utcnow(), in ticks
    rlEvents,   \* RateLimiter._events: identifier -> deque of timestamps
    rlLock,     \* RateLimiter._lock: the task holding it, or NoOne
    rlPc,       \* position of each task inside allow()
    rlId,       \* allow()'s identifier argument, per task
    rlNow,      \* allow()'s local `now`, per task
    rlAdmit,    \* the outcome of the length test, per task
    rlLog,      \* history: identifier -> sequence of returned calls
    tmEvents,   \* TelemetryClient._events: every event put, in order
    tmTaken,    \* the positions in tmEvents that get() has taken out
    tmCur,      \* _forward_events: the position of `event`, 0 if none
    tmSent,     \* history: the posts made, with what became of each
    tmPc,       \* position of the _forward_events task: none, get, post,
                \* cancelled, or the exception that ended it
    tmEndpoint, \* settings.telemetry_endpoint is set
    tmLife,     \* the client's calls so far: new, started, stopped, or
                \* stop_raised
    tmCalls,    \* history: the start() and stop() calls made, in order
    tmTasks,    \* history: asyncio.create_task calls made by start()
    gpPc,       \* position of the get_products handler: idle, gather,
                \* returned
    gpSelected, \* get_products: selected
    gpLimit,    \* get_products: limit
    gpCalls,    \* get_products: the gathered collect_from_scraper tasks
    gpOrder,    \* the order in which those tasks finished
    gpResponse, \* what the handler returned (or raised)
    gpEvBase,   \* history: length of tmEvents when the request started
    dbRows,     \* the products table, as the writing connection sees it
    dbJournal,  \* the open transaction's rollback image of the table
    dbIds,      \* history: the (provider, url) pairs ever committed
    thPc,       \* the worker thread running _store: none, run, ok, or
                \* the error it raised
    thItems,    \* upsert_products: products
    thK,        \* upsert_products: position in products
    thCount,    \* upsert_products: count
    thBase,     \* history: the table when the batch began
    scPc,       \* position of the background_scraper_loop task
    scCalls,    \* run_scraping_cycle: the gathered tasks
    scOrder,    \* the order in which those tasks finished
    scResults,  \* run_scraping_cycle: results
    scI,        \* run_scraping_cycle: position in zip(providers, results)
    scStored,   \* run_scraping_cycle: stored
    scWake,     \* the time at which asyncio.sleep returns
    scCycle,    \* cycles started so far
    scEvBase,   \* history: length of tmEvents when the cycle started
    scDbBase,   \* history: the committed table when the cycle started
    stCount,    \* _persist_results calls made to the store on its own
    lmCall,     \* a direct call of _limit: its arguments and its result
    rdPc,       \* position of the get_cached_products handler: idle,
                \* thread, returned
    rdProvider, \* get_cached_products: provider
    rdLimit,    \* get_cached_products: limit
    rdResult,   \* get_cached_products: cached
    lpResult    \* list_providers: the response's providers

rlVars == <<rlEvents, rlLock, rlPc, rlId, rlNow, rlAdmit, rlLog>>

gpVars == <<gpPc, gpSelected, gpLimit, gpCalls, gpOrder, gpResponse,
            gpEvBase>>

dbVars == <<dbRows, dbJournal, dbIds, thPc, thItems, thK, thCount, thBase>>

scVars == <<scPc, scCalls, scOrder, scResults, scI, scStored, scWake, scCycle,
            scEvBase, scDbBase>>

rdVars == <<rdPc, rdProvider, rdLimit, rdResult, lpResult>>

tmVars == <<tmTaken, tmCur, tmSent, tmPc, tmEndpoint, tmLife, tmCalls,
           tmTasks>>

vars == <<clock, rlVars, tmEvents, tmVars, gpVars, dbVars, scVars, stCount,
          lmCall, rdVars>>

(***************************************************************************)
(* Sequence helpers.                                                       *)
(***************************************************************************)
RECURSIVE SumSeq(_)
SumSeq(s) == IF s = <<>> THEN 0 ELSE Head(s) + SumSeq(Tail(s))

Range(s) == {s[i] : i \in 1..Len(s)}

\* The summed lengths of the sequences f[x], x in S.
RECURSIVE SumLens(_, _)
SumLens(f, S) ==
    IF S = {} THEN 0
    ELSE LET x == CHOOSE y \in S : TRUE
         IN  Len(f[x]) + SumLens(f, S \ {x})

(***************************************************************************)
(* security/rate_limiter.py                                                *)
(***************************************************************************)

\* A prune that also drops the timestamp lying exactly on the cutoff.
RECURSIVE PruneClosed(_, _)
PruneClosed(bucket, cutoff) ==
    IF bucket # <<>> /\ Head(bucket) <= cutoff
    THEN PruneClosed(Tail(bucket), cutoff)
    ELSE bucket

\* while bucket and bucket[0] < cutoff: bucket.popleft()
\* (PruneNone: the loop left out.)
PruneNone(bucket, cutoff) == bucket

RECURSIVE Prune(_, _)
Prune(bucket, cutoff) ==
    IF bucket # <<>> /\ Head(bucket) < cutoff
    THEN Prune(Tail(bucket), cutoff)
    ELSE bucket

\* if len(bucket) >= self.max_requests: return False
OverLimitGt(bucket) == Len(bucket) > max_requests

OverLimit(bucket) == Len(bucket) >= max_requests

\* asyncio.Lock.acquire: taken at once when nobody holds it, else the caller
\* waits.  A lock that never excludes anybody is the mutant.
LockNeverHeld(lock) == TRUE

LockFree(lock) == lock = NoOne

TotalCalls == SumLens(rlLog, Identifiers)

InAllow == {c \in Callers : rlPc[c] # "idle"}

RLInit ==
    /\ rlEvents = [i \in Identifiers |-> <<>>]
    /\ rlLock = NoOne
    /\ rlPc = [c \in Callers |-> "idle"]
    /\ rlId = [c \in Callers |-> "anonymous"]
    /\ rlNow = [c \in Callers |-> 0]
    /\ rlAdmit = [c \in Callers |-> FALSE]
    /\ rlLog = [i \in Identifiers |-> <<>>]

\* now = time.monotonic(); cutoff = ...; async with self._lock: (entry).
\* Lock.acquire() does not suspend when the lock is free, so the clock read
\* and the acquisition are one uninterrupted stretch.
AllowEnter(c, id) ==
    /\ rlPc[c] = "idle"
    /\ TotalCalls + Cardinality(InAllow) < MaxCalls
    /\ LockFree(rlLock)
    /\ rlLock' = c
    /\ rlId' = [rlId EXCEPT ![c] = id]
    /\ rlNow' = [rlNow EXCEPT ![c] = clock]
    /\ rlPc' = [rlPc EXCEPT ![c] = "prune"]
    /\ UNCHANGED <<clock, rlEvents, rlAdmit, rlLog, tmEvents, gpVars,
                   dbVars, scVars, stCount>>
    /\ UNCHANGED <<tmVars, lmCall, rdVars>>

\* bucket = self._events[identifier]; the popleft loop.
AllowPrune(c) ==
    /\ rlPc[c] = "prune"
    /\ rlEvents' = [rlEvents EXCEPT
                      ![rlId[c]] = Prune(@, rlNow[c] - window_seconds)]
    /\ rlPc' = [rlPc EXCEPT ![c] = "check"]
    /\ UNCHANGED <<clock, rlLock, rlId, rlNow, rlAdmit, rlLog, tmEvents,
                   gpVars, dbVars, scVars, stCount>>
    /\ UNCHANGED <<tmVars, lmCall, rdVars>>

\* if len(bucket) >= self.max_requests
AllowCheck(c) ==
    /\ rlPc[c] = "check"
    /\ rlAdmit' = [rlAdmit EXCEPT ![c] = ~OverLimit(rlEvents[rlId[c]])]
    /\ rlPc' = [rlPc EXCEPT ![c] = "return"]
    /\ UNCHANGED <<clock, rlEvents, rlLock, rlId, rlNow, rlLog, tmEvents,
                   gpVars, dbVars, scVars, stCount>>
    /\ UNCHANGED <<tmVars, lmCall, rdVars>>

\* A return that records the timestamp of a rejected call too.
AllowReturnRecordsAll(c) ==
    /\ rlPc[c] = "return"
    /\ rlEvents' = [rlEvents EXCEPT ![rlId[c]] = Append(@, rlNow[c])]
    /\ rlLog' = [rlLog EXCEPT ![rlId[c]] =
                    Append(@, [t |-> rlNow[c], ok |-> rlAdmit[c], by |-> c])]
    /\ rlLock' = NoOne
    /\ rlPc' = [rlPc EXCEPT ![c] = "idle"]
    /\ UNCHANGED <<clock, rlId, rlNow, rlAdmit, tmEvents, gpVars,
                   dbVars, scVars, stCount>>
    /\ UNCHANGED <<tmVars, lmCall, rdVars>>

\* return False  |  bucket.append(now); return True   (and the lock's release)
AllowReturn(c) ==
    /\ rlPc[c] = "return"
    /\ rlEvents' = IF rlAdmit[c]
                   THEN [rlEvents EXCEPT ![rlId[c]] = Append(@, rlNow[c])]
                   ELSE rlEvents
    /\ rlLog' = [rlLog EXCEPT ![rlId[c]] =
                    Append(@, [t |-> rlNow[c], ok |-> rlAdmit[c], by |-> c])]
    /\ rlLock' = NoOne
    /\ rlPc' = [rlPc EXCEPT ![c] = "idle"]
    /\ UNCHANGED <<clock, rlId, rlNow, rlAdmit, tmEvents, gpVars,
                   dbVars, scVars, stCount>>
    /\ UNCHANGED <<tmVars, lmCall, rdVars>>

Tick ==
    /\ clock < MaxTime
    /\ clock' = clock + 1
    /\ UNCHANGED <<rlVars, tmEvents, gpVars,
                   dbVars, scVars, stCount>>
    /\ UNCHANGED <<tmVars, lmCall, rdVars>>


(***************************************************************************)
(* scraping/base.py: Product, BaseScraper._limit                           *)
(***************************************************************************)

\* Product(provider=self.provider, name=..., url=..., ...), last_seen by
\* default_factory=datetime.utcnow.  One listing content c fixes every
\* scraped field, each field to a value of its own.
\* (ProductDated: last_seen read from the listing instead of the clock.)
ProductDated(p, u, c, t) ==
    [provider |-> p, name |-> c, url |-> u, price |-> 10 + c,
     currency |-> 20 + c, images |-> 30 + c, description |-> 40 + c,
     brand |-> 50 + c, categories |-> 60 + c, metadata |-> 70 + c,
     last_seen |-> c]

Product(p, u, c, t) ==
    [provider |-> p, name |-> c, url |-> u, price |-> 10 + c,
     currency |-> 20 + c, images |-> 30 + c, description |-> 40 + c,
     brand |-> 50 + c, categories |-> 60 + c, metadata |-> 70 + c,
     last_seen |-> t]

\* for item in items: limited.append(item); if len(limited) >= limit: break
\* The length is compared after the append.
RECURSIVE LimitLoop(_, _, _)
LimitLoop(items, limited, limit) ==
    IF items = <<>> THEN limited
    ELSE LET appended == Append(limited, Head(items))
         IN  IF Len(appended) >= limit THEN appended
             ELSE LimitLoop(Tail(items), appended, limit)

\* if limit is None: return list(items); else the loop.
Limit(items, limit) ==
    IF limit = NoLimit THEN items
    ELSE LimitLoop(items, <<>>, limit[1])

\* The lists of (url, content) pairs of at most n entries.
RECURSIVE Pages(_)
Pages(n) ==
    IF n = 0 THEN {<<>>}
    ELSE Pages(n - 1) \cup
         {Append(pg, e) : pg \in {q \in Pages(n - 1) : Len(q) = n - 1},
                          e \in Urls \X Contents}

\* _parse_products: what scraper p parses from a page fetched at time t.
Parsed(p, page, t) ==
    [i \in 1..Len(page) |-> Product(p, page[i][1], page[i][2], t)]

(***************************************************************************)
(* telemetry/events.py: TelemetryEvent, TelemetryClient.record             *)
(***************************************************************************)

\* TelemetryEvent(name, attributes): the attributes the pipeline sets.
Event(name, provider, providers, n) ==
    [name |-> name, provider |-> provider, providers |-> providers, n |-> n]

\* await self._events.put(event): the queue is unbounded, put never waits.
Record(queue, event) == Append(queue, event)

\* TelemetryClient.__init__, with telemetry_endpoint at its default, None.
TMInit ==
    /\ tmEvents = <<>>
    /\ tmTaken = {}
    /\ tmCur = 0
    /\ tmSent = <<>>
    /\ tmPc = "none"
    /\ tmEndpoint = FALSE
    /\ tmLife = "new"
    /\ tmCalls = <<>>
    /\ tmTasks = 0

\* An event of a caller's own: one attribute, a text or an object that
\* json has no encoding for.
CustomEvent(v) ==
    [name |-> "custom", provider |-> "", providers |-> <<>>, n |-> 0,
     value |-> v]

\* json.dumps(asdict(event)) returns; otherwise it raises TypeError.
Serializable(event) == "value" \in DOMAIN event => event.value = "text"

\* The events still in the queue, by position.
Buffered == {k \in 1..Len(tmEvents) : k \notin tmTaken}

\* asyncio.Queue._get: self._queue.popleft().
\* (QueuePop: the newest first, as LifoQueue's pop().)
QueuePop(S) == CHOOSE k \in S : \A j \in S : j <= k

QueueGet(S) == CHOOSE k \in S : \A j \in S : k <= j

\* asyncio.Queue() has maxsize 0: put finds room whatever the queue holds.
\* (PutReadyBounded: a queue of maxsize 2, whose put waits when it is full.)
PutReadyBounded(queue, taken) == Len(queue) - Cardinality(taken) < 2

PutReady(queue, taken) == TRUE

\* What client.post can end with: a response of any status, or an
\* httpx.HTTPError (no connection, timeout, protocol error).
PostOutcomes == {"delivered", "rejected", "HTTPError"}

\* The start() calls made so far.
Starts == Cardinality({i \in 1..Len(tmCalls) : tmCalls[i] = "start"})

\* A start() that creates a sender task whenever an endpoint is configured.
TmStartAnew ==
    /\ Starts < MaxStarts
    /\ tmCalls' = Append(tmCalls, "start")
    /\ tmLife' = IF tmLife = "new" THEN "started" ELSE tmLife
    /\ IF tmEndpoint
       THEN tmPc' = "get" /\ tmTasks' = tmTasks + 1
       ELSE UNCHANGED <<tmPc, tmTasks>>
    /\ UNCHANGED <<clock, rlVars, tmEvents, tmTaken, tmCur, tmSent,
                   tmEndpoint, gpVars, dbVars, scVars, stCount>>
    /\ UNCHANGED <<lmCall, rdVars>>

\* start(): the sender task is created if an endpoint is configured and
\* self._sender_task is None, which it is until the first task is created:
\* stop() leaves the attribute set.
TmStart ==
    /\ Starts < MaxStarts
    /\ tmCalls' = Append(tmCalls, "start")
    /\ tmLife' = IF tmLife = "new" THEN "started" ELSE tmLife
    /\ IF tmEndpoint /\ tmPc = "none"
       THEN tmPc' = "get" /\ tmTasks' = tmTasks + 1
       ELSE UNCHANGED <<tmPc, tmTasks>>
    /\ UNCHANGED <<clock, rlVars, tmEvents, tmTaken, tmCur, tmSent,
                   tmEndpoint, gpVars, dbVars, scVars, stCount>>
    /\ UNCHANGED <<lmCall, rdVars>>

\* record(event), from any task, at any time.
TmRecord(event) ==
    /\ Len(tmEvents) < MaxEvents
    /\ PutReady(tmEvents, tmTaken)
    /\ tmEvents' = Record(tmEvents, event)
    /\ UNCHANGED <<clock, rlVars, tmVars, gpVars, dbVars, scVars, stCount>>
    /\ UNCHANGED <<lmCall, rdVars>>

\* event = await self._events.get(); payload = json.dumps(asdict(event)).
\* The dumps is outside the try: its TypeError ends the task.
TmGet ==
    /\ tmPc = "get"
    /\ Buffered # {}
    /\ LET k == QueueGet(Buffered)
       IN  /\ tmTaken' = tmTaken \cup {k}
           /\ IF Serializable(tmEvents[k])
              THEN tmPc' = "post" /\ tmCur' = k
              ELSE tmPc' = "TypeError" /\ tmCur' = 0
    /\ UNCHANGED <<clock, rlVars, tmEvents, tmSent, tmEndpoint, tmLife,
                   tmCalls, tmTasks, gpVars, dbVars, scVars, stCount>>
    /\ UNCHANGED <<lmCall, rdVars>>

\* await client.post(...) ends; except httpx.HTTPError: pass; the loop
\* goes back to get().
TmPost(outcome) ==
    /\ tmPc = "post"
    /\ tmSent' = Append(tmSent, [k |-> tmCur, result |-> outcome])
    /\ tmCur' = 0
    /\ tmPc' = "get"
    /\ UNCHANGED <<clock, rlVars, tmEvents, tmTaken, tmEndpoint, tmLife,
                   tmCalls, tmTasks, gpVars, dbVars, scVars, stCount>>
    /\ UNCHANGED <<lmCall, rdVars>>

\* (TmStopNoCancel: stop() without the cancel and the await.)
TmStopNoCancel ==
    /\ tmLife = "started"
    /\ tmLife' = "stopped"
    /\ tmCalls' = Append(tmCalls, "stop")
    /\ UNCHANGED <<clock, rlVars, tmEvents, tmTaken, tmCur, tmSent, tmPc,
                   tmEndpoint, tmTasks, gpVars, dbVars, scVars, stCount>>
    /\ UNCHANGED <<lmCall, rdVars>>

\* stop(): if there is a sender task, cancel it and await it, suppressing
\* CancelledError.  A task waiting in get() ends without taking an event; a
\* task waiting in post() ends with the request sent or not.  A task that an
\* exception ended hands that exception to the await.
TmStop ==
    /\ tmLife = "started"
    /\ tmLife' = IF tmPc = "TypeError" THEN "stop_raised" ELSE "stopped"
    /\ tmPc' = IF tmPc \in {"get", "post"} THEN "cancelled" ELSE tmPc
    /\ tmCur' = 0
    /\ IF tmPc = "post"
       THEN \E r \in {"delivered", "abandoned"} :
               tmSent' = Append(tmSent, [k |-> tmCur, result |-> r])
       ELSE UNCHANGED tmSent
    /\ tmCalls' = Append(tmCalls, "stop")
    /\ UNCHANGED <<clock, rlVars, tmEvents, tmTaken, tmEndpoint, tmTasks,
                   gpVars, dbVars, scVars, stCount>>
    /\ UNCHANGED <<lmCall, rdVars>>

(***************************************************************************)
(* scraping/service.py: ScraperRegistry, collect_from_scraper              *)
(***************************************************************************)

\* ScraperRegistry.providers: sorted(self._scrapers.keys())
providers == <<"complexshop", "goat", "universalstore">>

\* ScraperRegistry.get raises ScraperError for a name not in _scrapers.
\* (RegisteredAny: get() hands out a scraper for any name.)
RegisteredAny(name) == TRUE

Registered(name) == name \in Scrapers

\* One gathered task: collect_from_scraper(registry.get(provider), ...).
Task(p) == [provider |-> p, state |-> "pending", items |-> <<>>]

\* asyncio.gather(*tasks, return_exceptions=True) is done when every task
\* is.  (GatherFailFast: done at the first exception, as without
\* return_exceptions.)
GatherFailFast(calls) ==
    \/ \E i \in 1..Len(calls) : calls[i].state = "failed"
    \/ \A i \in 1..Len(calls) : calls[i].state # "pending"

GatherDone(calls) == \A i \in 1..Len(calls) : calls[i].state # "pending"

\* gather's result list: outcome i is task i's, whatever the finishing order.
\* (GatherByCompletion: outcomes in the order the tasks finished.)
GatherByCompletion(calls, order) ==
    [i \in 1..Len(calls) |->
        IF i <= Len(order) THEN calls[order[i]] ELSE calls[i]]

GatherResults(calls, order) == [i \in 1..Len(calls) |-> calls[i]]

\* isinstance(outcome, Exception)
IsException(outcome) == outcome.state # "ok"

\* fetch_products succeeded: the scraper.fetch event, then _limit.
FetchOk(calls, i, page, limit) ==
    LET p == calls[i].provider
        products == Parsed(p, page, clock)
    IN  /\ tmEvents' = Record(tmEvents,
                          Event("scraper.fetch", p, <<>>, Len(products)))
        /\ calls' = [calls EXCEPT ![i] = [provider |-> p, state |-> "ok",
                                          items |-> Limit(products, limit)]]

\* fetch_products raised (transport error, bad status, parse failure).
FetchFail(calls, i) ==
    /\ calls' = [calls EXCEPT ![i].state = "failed"]
    /\ UNCHANGED tmEvents

(***************************************************************************)
(* api/main.py: get_products                                               *)
(***************************************************************************)

\* The `providers` query parameter: absent, or a list of names.
Selections ==
    {<<>>} \cup {<<a>> : a \in Names} \cup {<<a, b>> : a \in Names, b \in Names}

\* results[provider] = [asdict(product) for product in outcome]
SetItem(results, key, value) ==
    [k \in DOMAIN results \cup {key} |->
        IF k = key THEN value ELSE results[k]]

\* for provider, outcome in zip(selected, gather_results): ... from pair i on.
\* acc = [results, events].
RECURSIVE GpLoop(_, _, _, _)
GpLoop(selected, outcomes, i, acc) ==
    IF i > Len(selected) \/ i > Len(outcomes) THEN acc
    ELSE IF IsException(outcomes[i])
    THEN GpLoop(selected, outcomes, i + 1,
                [results |-> acc.results,
                 events |-> Record(acc.events,
                               Event("scraper.error", selected[i], <<>>, 0))])
    ELSE GpLoop(selected, outcomes, i + 1,
                [results |-> SetItem(acc.results, selected[i],
                                     outcomes[i].items),
                 events |-> acc.events])

\* sum(len(items) for items in results.values())
RECURSIVE CountItems(_, _)
CountItems(results, keys) ==
    IF keys = {} THEN 0
    ELSE LET k == CHOOSE x \in keys : TRUE
         IN  Len(results[k]) + CountItems(results, keys \ {k})

NoResponse == [status |-> "none", providers |-> <<>>]

GPInit ==
    /\ gpPc = "idle"
    /\ gpSelected = <<>>
    /\ gpLimit = NoLimit
    /\ gpCalls = <<>>
    /\ gpOrder = <<>>
    /\ gpResponse = NoResponse
    /\ gpEvBase = 0

\* Lines 139-145: selected = providers or registry.providers; one
\* registry.get per name, which raises for an unknown one; then the gather.
GetProductsCall(sel, limit) ==
    /\ gpPc = "idle"
    /\ gpEvBase' = Len(tmEvents)
    /\ gpLimit' = limit
    /\ gpOrder' = <<>>
    /\ LET selected == IF sel = <<>> THEN providers ELSE sel IN
       /\ gpSelected' = selected
       /\ IF \A i \in 1..Len(selected) : Registered(selected[i])
          THEN /\ gpCalls' = [i \in 1..Len(selected) |-> Task(selected[i])]
               /\ gpPc' = "gather"
               /\ gpResponse' = NoResponse
          ELSE /\ gpCalls' = <<>>
               /\ gpPc' = "returned"
               /\ gpResponse' = [status |-> "ScraperError",
                                 providers |-> <<>>]
    /\ UNCHANGED <<clock, rlVars, tmEvents, dbVars, scVars, stCount>>
    /\ UNCHANGED <<tmVars, lmCall, rdVars>>

\* One gathered task of the request finishes.
GetProductsFetch(i, page, ok) ==
    /\ gpPc = "gather"
    /\ i \in 1..Len(gpCalls)
    /\ gpCalls[i].state = "pending"
    /\ IF ok THEN FetchOk(gpCalls, i, page, gpLimit)
             ELSE FetchFail(gpCalls, i)
    /\ gpOrder' = Append(gpOrder, i)
    /\ UNCHANGED <<clock, rlVars, gpPc, gpSelected, gpLimit, gpResponse,
                   gpEvBase, dbVars, scVars, stCount>>
    /\ UNCHANGED <<tmVars, lmCall, rdVars>>

\* Lines 145-164: the gather returns, the loop over zip(selected, results),
\* the api.products event, the response.  No await of it suspends.
GetProductsReturn ==
    /\ gpPc = "gather"
    /\ GatherDone(gpCalls)
    /\ LET out == GpLoop(gpSelected, GatherResults(gpCalls, gpOrder), 1,
                         [results |-> <<>>, events |-> tmEvents])
       IN  /\ tmEvents' = Record(out.events,
                             Event("api.products", "", gpSelected,
                                   CountItems(out.results,
                                              DOMAIN out.results)))
           /\ gpResponse' = [status |-> "ok", providers |-> out.results]
    /\ gpPc' = "returned"
    /\ UNCHANGED <<clock, rlVars, gpSelected, gpLimit, gpCalls, gpOrder,
                   gpEvBase, dbVars, scVars, stCount>>
    /\ UNCHANGED <<tmVars, lmCall, rdVars>>




(***************************************************************************)
(* db/models.py, db/repository.py, db/session.py: the product store        *)
(***************************************************************************)

\* _product_to_dict: the payload of one product; metadata goes to the
\* column `attributes`.
ProductToDict(product) ==
    [provider |-> product.provider, name |-> product.name,
     url |-> product.url, price |-> product.price,
     currency |-> product.currency, images |-> product.images,
     description |-> product.description, brand |-> product.brand,
     categories |-> product.categories, attributes |-> product.metadata,
     last_seen |-> product.last_seen]

\* ProductRecord.update_from_dict: setattr(self, key, value) for every key;
\* the primary key is no key of the payload.
\* (UpdateKeepsLastSeen: last_seen left as stored.)
UpdateKeepsLastSeen(row, data) ==
    [k \in DOMAIN row |->
        IF k \in DOMAIN data /\ k # "last_seen" THEN data[k] ELSE row[k]]

UpdateFromDict(row, data) ==
    [k \in DOMAIN row |-> IF k \in DOMAIN data THEN data[k] ELSE row[k]]

\* id = Column(Integer, primary_key=True): the next free row id.
NextId(rows) ==
    IF rows = {} THEN 1
    ELSE 1 + (CHOOSE m \in {r.id : r \in rows} :
                 \A r \in rows : r.id <= m)

\* ProductRecord(**payload), with the key the table gives it.
NewRecord(data, id) ==
    [k \in DOMAIN data \cup {"id"} |-> IF k = "id" THEN id ELSE data[k]]

\* select(ProductRecord).where(provider == ..., url == ...): the session
\* flushes before it queries, so rows added earlier in the batch are seen.
\* (ExistingByUrl: the provider left out of the WHERE clause.)
ExistingByUrl(rows, provider, url) == {r \in rows : r.url = url}

Existing(rows, provider, url) ==
    {r \in rows : r.provider = provider /\ r.url = url}

\* UniqueConstraint("provider", "url"): may a row of this payload be added?
UniqueOk(rows, data) ==
    \A r \in rows : ~(r.provider = data.provider /\ r.url = data.url)

Identity(r) == <<r.provider, r.url>>

NoTxn == [open |-> FALSE, rows |-> {}]

\* What the worker thread may end with instead of a count.
ThreadErrors == {"StoreError", "IntegrityError"}

\* What a reader on another connection sees: the committed table.
Committed == IF dbJournal.open THEN dbJournal.rows ELSE dbRows

\* except Exception: session.rollback(); raise
\* (RollbackKeeps: the writes made so far are left in the table.)
RollbackKeeps(rows, journal) == rows

Rollback(rows, journal) == journal.rows

DBInit ==
    /\ dbRows = {}
    /\ dbJournal = NoTxn
    /\ dbIds = {}
    /\ thPc = "none"
    /\ thItems = <<>>
    /\ thK = 1
    /\ thCount = 0
    /\ thBase = {}

\* asyncio.to_thread(_store): the worker enters session_scope() and
\* upsert_products(session, items).
ThreadStart(items) ==
    /\ thPc' = "run"
    /\ thItems' = items
    /\ thK' = 1
    /\ thCount' = 0
    /\ dbJournal' = [open |-> TRUE, rows |-> dbRows]
    /\ thBase' = dbRows
    /\ UNCHANGED <<dbRows, dbIds>>

\* A loop that counts the rows it adds and not the rows it updates.
UpsertStepCountsInserts ==
    /\ thPc = "run"
    /\ thK <= Len(thItems)
    /\ LET product == thItems[thK]
           payload == ProductToDict(product)
           existing == Existing(dbRows, product.provider, product.url)
       IN  IF existing # {}
           THEN LET row == CHOOSE r \in existing : TRUE
                IN  /\ dbRows' = (dbRows \ {row}) \cup
                                    {UpdateFromDict(row, payload)}
                    /\ thK' = thK + 1
                    /\ UNCHANGED <<dbJournal, thPc, thCount>>
           ELSE IF UniqueOk(dbRows, payload)
           THEN /\ dbRows' = dbRows \cup {NewRecord(payload, NextId(dbRows))}
                /\ thK' = thK + 1
                /\ thCount' = thCount + 1
                /\ UNCHANGED <<dbJournal, thPc>>
           ELSE /\ dbRows' = Rollback(dbRows, dbJournal)
                /\ dbJournal' = NoTxn
                /\ thPc' = "IntegrityError"
                /\ UNCHANGED <<thK, thCount>>
    /\ UNCHANGED <<clock, rlVars, tmEvents, gpVars, dbIds, thItems, thBase,
                   scVars, stCount>>
    /\ UNCHANGED <<tmVars, lmCall, rdVars>>

\* One turn of upsert_products' loop.  An insert the unique constraint
\* refuses raises, which session_scope answers with a rollback.
UpsertStep ==
    /\ thPc = "run"
    /\ thK <= Len(thItems)
    /\ LET product == thItems[thK]
           payload == ProductToDict(product)
           existing == Existing(dbRows, product.provider, product.url)
       IN  IF existing # {}
           THEN LET row == CHOOSE r \in existing : TRUE
                IN  /\ dbRows' = (dbRows \ {row}) \cup
                                    {UpdateFromDict(row, payload)}
                    /\ thK' = thK + 1
                    /\ thCount' = thCount + 1
                    /\ UNCHANGED <<dbJournal, thPc>>
           ELSE IF UniqueOk(dbRows, payload)
           THEN /\ dbRows' = dbRows \cup {NewRecord(payload, NextId(dbRows))}
                /\ thK' = thK + 1
                /\ thCount' = thCount + 1
                /\ UNCHANGED <<dbJournal, thPc>>
           ELSE /\ dbRows' = Rollback(dbRows, dbJournal)
                /\ dbJournal' = NoTxn
                /\ thPc' = "IntegrityError"
                /\ UNCHANGED <<thK, thCount>>
    /\ UNCHANGED <<clock, rlVars, tmEvents, gpVars, dbIds, thItems, thBase,
                   scVars, stCount>>
    /\ UNCHANGED <<tmVars, lmCall, rdVars>>

\* return count; session.commit(); session.close()
StoreCommit ==
    /\ thPc = "run"
    /\ thK > Len(thItems)
    /\ dbJournal' = NoTxn
    /\ dbIds' = dbIds \cup {Identity(thItems[i]) : i \in 1..Len(thItems)}
    /\ thPc' = "ok"
    /\ UNCHANGED <<clock, rlVars, tmEvents, gpVars, dbRows, thItems, thK,
                   thCount, thBase, scVars, stCount>>
    /\ UNCHANGED <<tmVars, lmCall, rdVars>>

\* A statement, a flush or the commit fails (the database is locked, the
\* disk is full, ...): rollback, close, and the error is raised.
StoreFail ==
    /\ thPc = "run"
    /\ dbRows' = Rollback(dbRows, dbJournal)
    /\ dbJournal' = NoTxn
    /\ thPc' = "StoreError"
    /\ thItems' = <<>>
    /\ thK' = 1
    /\ thCount' = 0
    /\ UNCHANGED <<clock, rlVars, tmEvents, gpVars, dbIds, thBase, scVars,
                   stCount>>
    /\ UNCHANGED <<tmVars, lmCall, rdVars>>

(***************************************************************************)
(* api/main.py: run_scraping_cycle, background_scraper_loop                *)
(***************************************************************************)

SCInit ==
    /\ stCount = 0
    /\ scPc = "off"
    /\ scCalls = <<>>
    /\ scOrder = <<>>
    /\ scResults = <<>>
    /\ scI = 1
    /\ scStored = 0
    /\ scWake = 0
    /\ scCycle = 0
    /\ scEvBase = 0
    /\ scDbBase = {}

\* on_startup: the app.startup event, then create_task(background_scraper_loop()).
Startup ==
    /\ scPc = "off"
    /\ scPc' = "ready"
    /\ tmEvents' = Record(tmEvents, Event("app.startup", "", <<>>, 0))
    /\ UNCHANGED <<clock, rlVars, gpVars, dbVars, scCalls, scOrder,
                   scResults, scI, scStored, scWake, scCycle, scEvBase,
                   scDbBase, stCount>>
    /\ UNCHANGED <<tmVars, lmCall, rdVars>>

\* A task that runs the cycle once, without the loop around it.
CycleStartOnce ==
    /\ scPc = "ready"
    /\ scCycle < MaxCycles
    /\ scCycle' = scCycle + 1
    /\ scCalls' = [i \in 1..Len(providers) |-> Task(providers[i])]
    /\ scOrder' = <<>>
    /\ scResults' = <<>>
    /\ scI' = 1
    /\ scStored' = 0
    /\ scPc' = "gather"
    /\ scEvBase' = Len(tmEvents)
    /\ scDbBase' = Committed
    /\ UNCHANGED <<clock, rlVars, tmEvents, gpVars, dbVars, scWake, stCount>>
    /\ UNCHANGED <<tmVars, lmCall, rdVars>>

\* The loop body begins: the task was just created, or its sleep is over.
\* run_scraping_cycle gathers one collect_from_scraper per registered provider.
\* (CycleStartEarly: the next turn of the loop without the sleep's end.)
CycleStartEarly ==
    /\ scPc \in {"ready", "sleep"}
    /\ scCycle < MaxCycles
    /\ scCycle' = scCycle + 1
    /\ scCalls' = [i \in 1..Len(providers) |-> Task(providers[i])]
    /\ scOrder' = <<>>
    /\ scResults' = <<>>
    /\ scI' = 1
    /\ scStored' = 0
    /\ scPc' = "gather"
    /\ scEvBase' = Len(tmEvents)
    /\ scDbBase' = Committed
    /\ UNCHANGED <<clock, rlVars, tmEvents, gpVars, dbVars, scWake, stCount>>
    /\ UNCHANGED <<tmVars, lmCall, rdVars>>

CycleStart ==
    /\ \/ scPc = "ready"
       \/ scPc = "sleep" /\ clock >= scWake
    /\ scCycle < MaxCycles
    /\ scCycle' = scCycle + 1
    /\ scCalls' = [i \in 1..Len(providers) |-> Task(providers[i])]
    /\ scOrder' = <<>>
    /\ scResults' = <<>>
    /\ scI' = 1
    /\ scStored' = 0
    /\ scPc' = "gather"
    /\ scEvBase' = Len(tmEvents)
    /\ scDbBase' = Committed
    /\ UNCHANGED <<clock, rlVars, tmEvents, gpVars, dbVars, scWake, stCount>>
    /\ UNCHANGED <<tmVars, lmCall, rdVars>>

\* One gathered task of the cycle finishes (query=None, limit=None).
CycleFetch(i, page, ok) ==
    /\ scPc = "gather"
    /\ i \in 1..Len(scCalls)
    /\ scCalls[i].state = "pending"
    /\ IF ok THEN FetchOk(scCalls, i, page, NoLimit)
             ELSE FetchFail(scCalls, i)
    /\ scOrder' = Append(scOrder, i)
    /\ UNCHANGED <<clock, rlVars, gpVars, dbVars, scPc, scResults, scI,
                   scStored, scWake, scCycle, scEvBase, scDbBase, stCount>>
    /\ UNCHANGED <<tmVars, lmCall, rdVars>>

\* for provider, outcome in zip(registry.providers, results): the failed
\* outcomes from pair i on, up to the next outcome to persist.  Gives the
\* position reached and the queue with their scraper.error events.
RECURSIVE SkipFailed(_, _, _, _)
SkipFailed(names, outcomes, i, events) ==
    IF i > Len(names) \/ i > Len(outcomes) \/ ~IsException(outcomes[i])
    THEN [i |-> i, events |-> events]
    ELSE SkipFailed(names, outcomes, i + 1,
                    Record(events, Event("scraper.error", names[i], <<>>, 0)))

\* A summary whose stored_count is the last upsert's count and not the sum.
CycleContinueLastCount(outcomes, i, stored) ==
    LET r == SkipFailed(providers, outcomes, i, tmEvents)
    IN  /\ scStored' = stored
        /\ scI' = r.i
        /\ IF r.i <= Len(providers) /\ r.i <= Len(outcomes)
           THEN /\ tmEvents' = r.events
                /\ ThreadStart(outcomes[r.i].items)
                /\ scPc' = "persist"
                /\ UNCHANGED scWake
           ELSE /\ tmEvents' = Record(r.events,
                                  Event("scraper.cycle", "", providers, thCount))
                /\ scPc' = "sleep"
                /\ scWake' = clock + scrape_interval_seconds
                /\ thPc' = "none"
                /\ UNCHANGED <<dbRows, dbJournal, dbIds, thItems, thK,
                               thCount, thBase>>

\* The loop from pair i on, until the task next suspends: in
\* _persist_results for the next successful provider, or, the loop over and
\* the scraper.cycle event recorded, in asyncio.sleep.
CycleContinue(outcomes, i, stored) ==
    LET r == SkipFailed(providers, outcomes, i, tmEvents)
    IN  /\ scStored' = stored
        /\ scI' = r.i
        /\ IF r.i <= Len(providers) /\ r.i <= Len(outcomes)
           THEN /\ tmEvents' = r.events
                /\ ThreadStart(outcomes[r.i].items)
                /\ scPc' = "persist"
                /\ UNCHANGED scWake
           ELSE /\ tmEvents' = Record(r.events,
                                  Event("scraper.cycle", "", providers, stored))
                /\ scPc' = "sleep"
                /\ scWake' = clock + scrape_interval_seconds
                /\ thPc' = "none"
                /\ UNCHANGED <<dbRows, dbJournal, dbIds, thItems, thK,
                               thCount, thBase>>

\* results = await asyncio.gather(...) returns.
CycleGathered ==
    /\ scPc = "gather"
    /\ GatherDone(scCalls)
    /\ scResults' = GatherResults(scCalls, scOrder)
    /\ scOrder' = <<>>
    /\ CycleContinue(scResults', 1, 0)
    /\ UNCHANGED <<clock, rlVars, gpVars, scCalls, scCycle, scEvBase,
                   scDbBase, stCount>>
    /\ UNCHANGED <<tmVars, lmCall, rdVars>>

\* stored_count = await _persist_results(provider, outcome) returns.
PersistReturned ==
    /\ scPc = "persist"
    /\ thPc = "ok"
    /\ CycleContinue(scResults, scI + 1, scStored + thCount)
    /\ UNCHANGED <<clock, rlVars, gpVars, scCalls, scOrder, scResults,
                   scCycle, scEvBase, scDbBase, stCount>>
    /\ UNCHANGED <<tmVars, lmCall, rdVars>>

\* _persist_results raises: run_scraping_cycle ends with the exception,
\* background_scraper_loop catches it, records scraper.cycle.error and
\* goes to sleep.
\* (PersistRaisedUncaught: no handler, the exception ends the task.)
PersistRaisedUncaught ==
    /\ scPc = "persist"
    /\ thPc \in ThreadErrors
    /\ scPc' = "crashed"
    /\ thPc' = "none"
    /\ UNCHANGED <<clock, rlVars, tmEvents, gpVars, dbRows, dbJournal, dbIds,
                   thItems, thK, thCount, thBase, scCalls, scOrder, scResults,
                   scI, scStored, scWake, scCycle, scEvBase, scDbBase,
                   stCount>>
    /\ UNCHANGED <<tmVars, lmCall, rdVars>>

PersistRaised ==
    /\ scPc = "persist"
    /\ thPc \in ThreadErrors
    /\ tmEvents' = Record(tmEvents, Event("scraper.cycle.error", "", <<>>, 0))
    /\ scPc' = "sleep"
    /\ scWake' = clock + scrape_interval_seconds
    /\ thPc' = "none"
    /\ UNCHANGED <<clock, rlVars, gpVars, dbRows, dbJournal, dbIds, thItems,
                   thK, thCount, thBase, scCalls, scOrder, scResults, scI,
                   scStored, scCycle, scEvBase, scDbBase, stCount>>
    /\ UNCHANGED <<tmVars, lmCall, rdVars>>

\* on_shutdown: scraping_task.cancel() and the await of the task, then the
\* app.shutdown event.  The CancelledError reaches the task where it is
\* suspended: in the gather (whose pending tasks are cancelled with it), in
\* the await of the worker thread (which runs on to its end), or in the
\* sleep.  It is no Exception, so the loop's handler lets it through.
\* (ShutdownCaught: a handler that catches BaseException takes the
\* CancelledError of a cycle for a failure of the cycle.)
ShutdownCaught ==
    /\ scPc \in {"ready", "gather", "persist", "sleep"}
    /\ scPc' = IF scPc \in {"gather", "persist"} THEN "sleep" ELSE "cancelled"
    /\ scWake' = IF scPc \in {"gather", "persist"}
                 THEN clock + scrape_interval_seconds ELSE scWake
    /\ scCalls' = [i \in 1..Len(scCalls) |->
                     IF scPc = "gather" /\ scCalls[i].state = "pending"
                     THEN [scCalls[i] EXCEPT !.state = "failed"]
                     ELSE scCalls[i]]
    /\ tmEvents' = Record(tmEvents, Event("app.shutdown", "", <<>>, 0))
    /\ UNCHANGED <<clock, rlVars, gpVars, dbVars, scOrder, scResults, scI,
                   scStored, scCycle, scEvBase, scDbBase, stCount>>
    /\ UNCHANGED <<tmVars, lmCall, rdVars>>

Shutdown ==
    /\ scPc \in {"ready", "gather", "persist", "sleep"}
    /\ scPc' = "cancelled"
    /\ scCalls' = [i \in 1..Len(scCalls) |->
                     IF scPc = "gather" /\ scCalls[i].state = "pending"
                     THEN [scCalls[i] EXCEPT !.state = "failed"]
                     ELSE scCalls[i]]
    /\ tmEvents' = Record(tmEvents, Event("app.shutdown", "", <<>>, 0))
    /\ UNCHANGED <<clock, rlVars, gpVars, dbVars, scOrder, scResults, scI,
                   scStored, scWake, scCycle, scEvBase, scDbBase, stCount>>
    /\ UNCHANGED <<tmVars, lmCall, rdVars>>

\* Time passes while the loop sleeps; the sleep ends on time.
SleepTick ==
    /\ scPc = "sleep"
    /\ clock < scWake
    /\ clock' = clock + 1
    /\ UNCHANGED <<rlVars, tmEvents, gpVars, dbVars, scVars, stCount>>
    /\ UNCHANGED <<tmVars, lmCall, rdVars>>

(***************************************************************************)
(* scraping/base.py: _limit called by an adapter's fetch_products on what  *)
(* it parsed, with the limit its caller gave.                              *)
(***************************************************************************)
NoCall == <<>>

LMInit == lmCall = NoCall

\* return await self._limit(products, limit)
LimitCall(items, limit) ==
    /\ lmCall' = [items |-> items, limit |-> limit,
                  result |-> Limit(items, limit)]
    /\ UNCHANGED <<clock, rlVars, tmEvents, tmVars, gpVars, dbVars, scVars,
                   stCount, rdVars>>

(***************************************************************************)
(* api/main.py: list_providers and get_cached_products;                    *)
(* db/repository.py: fetch_products.                                       *)
(***************************************************************************)
RDInit ==
    /\ rdPc = "idle"
    /\ rdProvider = ""
    /\ rdLimit = NoLimit
    /\ rdResult = {}
    /\ lpResult = <<>>

\* return {"providers": registry.providers}
ListProviders ==
    /\ lpResult = <<>>
    /\ lpResult' = providers
    /\ UNCHANGED <<clock, rlVars, tmEvents, tmVars, gpVars, dbVars, scVars,
                   stCount, lmCall, rdPc, rdProvider, rdLimit, rdResult>>

\* select(ProductRecord).order_by(last_seen.desc()), .where(provider == ...)
\* if provider, .limit(limit) if limit: the sets of rows the statement can
\* give (rows of one last_seen come in any order, so any of them may fall
\* under the limit).  The order inside the answer is left out.
FetchProducts(rows, provider, limit) ==
    LET matching == IF provider # ""
                    THEN {r \in rows : r.provider = provider}
                    ELSE rows
        n == IF limit = NoLimit \/ limit[1] >= Cardinality(matching)
             THEN Cardinality(matching)
             ELSE limit[1]
    IN  {S \in SUBSET matching :
            /\ Cardinality(S) = n
            /\ \A r \in S, q \in matching \ S : r.last_seen >= q.last_seen}

\* The dict _fetch makes of a record: no id, attributes under "metadata",
\* last_seen.isoformat().
RecordToDict(record) ==
    [provider |-> record.provider, name |-> record.name,
     url |-> record.url, price |-> record.price,
     currency |-> record.currency, images |-> record.images,
     description |-> record.description, brand |-> record.brand,
     categories |-> record.categories, metadata |-> record.attributes,
     last_seen |-> <<"iso", record.last_seen>>]

\* get_cached_products is called and hands _fetch to a worker thread.
GetCachedCall(provider, limit) ==
    /\ rdPc = "idle"
    /\ rdPc' = "thread"
    /\ rdProvider' = provider
    /\ rdLimit' = limit
    /\ UNCHANGED <<clock, rlVars, tmEvents, tmVars, gpVars, dbVars, scVars,
                   stCount, lmCall, rdResult, lpResult>>

\* A cached read that marks the rows it served as seen now.
GetCachedFetchTouch ==
    /\ rdPc = "thread"
    /\ \E S \in FetchProducts(Committed, rdProvider, rdLimit) :
          /\ rdResult' = {RecordToDict(r) : r \in S}
          /\ dbRows' = (dbRows \ S) \cup
                          {[r EXCEPT !.last_seen = clock + 1] : r \in S}
    /\ rdPc' = "returned"
    /\ UNCHANGED <<clock, rlVars, tmEvents, tmVars, gpVars, dbJournal, dbIds,
                   thPc, thItems, thK, thCount, thBase, scVars, stCount,
                   lmCall, rdProvider, rdLimit, lpResult>>

\* _fetch in its thread: a session of its own, the select on what is
\* committed, the dicts, the commit of a session that wrote nothing, the
\* close; then the handler returns {"results": cached}.
GetCachedFetch ==
    /\ rdPc = "thread"
    /\ \E S \in FetchProducts(Committed, rdProvider, rdLimit) :
          rdResult' = {RecordToDict(r) : r \in S}
    /\ rdPc' = "returned"
    /\ UNCHANGED <<clock, rlVars, tmEvents, tmVars, gpVars, dbVars, scVars,
                   stCount, lmCall, rdProvider, rdLimit, lpResult>>

(***************************************************************************)
(* The store on its own: _persist_results called with any batch an adapter *)
(* can produce, one call after the other, each batch collected one tick    *)
(* after the one before.                                                   *)
(***************************************************************************)
StoreCall(p, page) ==
    /\ thPc # "run"
    /\ stCount < MaxBatches
    /\ stCount' = stCount + 1
    /\ clock' = clock + 1
    /\ ThreadStart(Parsed(p, page, clock))
    /\ UNCHANGED <<rlVars, tmEvents, gpVars, scVars>>
    /\ UNCHANGED <<tmVars, lmCall, rdVars>>

StoreInit == clock = 0 /\ RLInit /\ TMInit /\ GPInit /\ DBInit /\ SCInit /\ LMInit /\ RDInit

StoreNext ==
    \/ \E p \in {"complexshop", "goat"}, page \in Pages(MaxItems) :
          StoreCall(p, page)
    \/ UpsertStep
    \/ StoreCommit
    \/ StoreFail

SpecStore == StoreInit /\ [][StoreNext]_vars

(***************************************************************************)
(* The two collectors: get_products requests, and the scheduler with its   *)
(* fetches and the store.  They share nothing but the telemetry queue,     *)
(* to which both only append, so a run has either the requests or the      *)
(* scheduler.                                                              *)
(***************************************************************************)
\* The pages the sites serve while a request is being answered.
FanoutPages ==
    {<<>>, <<<<"/p/1", 1>>>>, <<<<"/p/1", 1>>, <<"/p/2", 2>>>>}

FanoutNext ==
    \/ \E sel \in Selections, limit \in Limits : GetProductsCall(sel, limit)
    \/ \E i \in 1..Len(gpCalls), page \in FanoutPages :
          GetProductsFetch(i, page, TRUE)
    \/ \E i \in 1..Len(gpCalls) : GetProductsFetch(i, <<>>, FALSE)
    \/ GetProductsReturn

\* The pages the sites serve to the scheduler's fetches.
CyclePages == {<<<<"/p/1", 1>>, <<"/p/2", 2>>>>}

SchedNext ==
    \/ SleepTick
    \/ Startup
    \/ CycleStart
    \/ \E i \in 1..Len(scCalls), page \in CyclePages :
          CycleFetch(i, page, TRUE)
    \/ \E i \in 1..Len(scCalls) : CycleFetch(i, <<>>, FALSE)
    \/ CycleGathered
    \/ UpsertStep
    \/ StoreCommit
    \/ StoreFail
    \/ PersistReturned
    \/ PersistRaised
    \/ Shutdown

FanoutInit == clock = 0 /\ RLInit /\ TMInit /\ GPInit /\ DBInit /\ SCInit /\ LMInit /\ RDInit

SpecFanout == FanoutInit /\ [][FanoutNext]_vars

SchedInit == clock = 0 /\ RLInit /\ TMInit /\ GPInit /\ DBInit /\ SCInit /\ LMInit /\ RDInit

SpecSched == SchedInit /\ [][SchedNext]_vars

CollectInit == clock = 0 /\ RLInit /\ TMInit /\ GPInit /\ DBInit /\ SCInit /\ LMInit /\ RDInit

CollectNext ==
    \/ scPc = "off" /\ FanoutNext
    \/ gpPc = "idle" /\ SchedNext

SpecCollect == CollectInit /\ [][CollectNext]_vars

\* A step of the scheduler's task, of an adapter call it awaits or of the
\* worker thread it awaits: every step of SchedNext but the shutdown.
CycleProgress ==
    \/ UpsertStep
    \/ StoreCommit
    \/ StoreFail
    \/ PersistReturned
    \/ PersistRaised
    \/ \E i \in 1..Len(scCalls), page \in CyclePages :
          CycleFetch(i, page, TRUE)
    \/ \E i \in 1..Len(scCalls) : CycleFetch(i, <<>>, FALSE)
    \/ CycleGathered
    \/ SleepTick
    \/ CycleStart

\* The application started and never shut down.
LoopNext ==
    \/ Startup
    \/ CycleProgress

\* The event loop runs the scheduler's task whenever it can go on, every
\* adapter call settles, every store write settles, and the sleep ends.
LiveLoop ==
    /\ SchedInit
    /\ [][LoopNext]_vars
    /\ WF_vars(CycleProgress)

\* The event loop resumes a task that can run: the loop's handler once the
\* worker thread has raised, the sleep as time passes, the next turn of
\* `while True` once the sleep is over.  (The loop is at one place at a time,
\* so the three are never enabled together.)
FairCollect ==
    /\ CollectInit
    /\ [][CollectNext]_vars
    /\ WF_vars(PersistRaised \/ SleepTick \/ CycleStart)

(***************************************************************************)
(* The limiter on its own.                                                 *)
(***************************************************************************)
LimiterInit == clock = 0 /\ RLInit /\ TMInit /\ GPInit /\ DBInit /\ SCInit /\ LMInit /\ RDInit

LimiterNext ==
    \/ Tick
    \/ \E c \in Callers, id \in Identifiers : AllowEnter(c, id)
    \/ \E c \in Callers : AllowPrune(c)
    \/ \E c \in Callers : AllowCheck(c)
    \/ \E c \in Callers : AllowReturn(c)

SpecLimiter == LimiterInit /\ [][LimiterNext]_vars

(***************************************************************************)
(* The telemetry client on its own: start, any records from any tasks,     *)
(* the sender task, stop; with an endpoint configured or without.          *)
(***************************************************************************)
\* The events the client is given.
TmInputs ==
    {Event("app.startup", "", <<>>, 0), CustomEvent("text"),
     CustomEvent("object")}

TelemetryInit ==
    /\ clock = 0 /\ RLInit /\ GPInit /\ DBInit /\ SCInit /\ LMInit /\ RDInit
    /\ tmEvents = <<>>
    /\ tmTaken = {}
    /\ tmCur = 0
    /\ tmSent = <<>>
    /\ tmPc = "none"
    /\ tmEndpoint \in BOOLEAN
    /\ tmLife = "new"
    /\ tmCalls = <<>>
    /\ tmTasks = 0

TelemetryNext ==
    \/ TmStart
    \/ \E event \in TmInputs : TmRecord(event)
    \/ TmGet
    \/ \E outcome \in PostOutcomes : TmPost(outcome)
    \/ TmStop

SpecTelemetry == TelemetryInit /\ [][TelemetryNext]_vars

(***************************************************************************)
(* _limit on its own: any parsed list of up to MaxItems products, and any  *)
(* limit an int parameter can carry from none up to one more than the list *)
(* is long.                                                                *)
(***************************************************************************)
LimitInputs == {NoLimit} \cup {<<n>> : n \in 0..(MaxItems + 1)}

LimitInit == clock = 0 /\ RLInit /\ TMInit /\ GPInit /\ DBInit /\ SCInit /\ LMInit /\ RDInit

LimitNext ==
    \E page \in Pages(MaxItems), limit \in LimitInputs :
        LimitCall(Parsed("goat", page, 0), limit)

SpecLimit == LimitInit /\ [][LimitNext]_vars

(***************************************************************************)
(* The handlers beside the scheduler: the application starts, runs its     *)
(* first cycle and may be shut down, while one request arrives at any      *)
(* moment: a rate-limit check, list_providers, get_products for goat, or   *)
(* get_cached_products.                                                    *)
(***************************************************************************)
NoRequest ==
    /\ gpPc = "idle"
    /\ rdPc = "idle"
    /\ lpResult = <<>>
    /\ InAllow = {}
    /\ \A id \in Identifiers : rlLog[id] = <<>>

ServeInit == clock = 0 /\ RLInit /\ TMInit /\ GPInit /\ DBInit /\ SCInit /\ LMInit /\ RDInit

ServeNext ==
    \/ Startup
    \/ scPc = "ready" /\ CycleStart
    \/ \E i \in 1..Len(scCalls), page \in CyclePages :
          CycleFetch(i, page, TRUE)
    \/ \E i \in 1..Len(scCalls) : CycleFetch(i, <<>>, FALSE)
    \/ CycleGathered
    \/ UpsertStep
    \/ StoreCommit
    \/ StoreFail
    \/ PersistReturned
    \/ PersistRaised
    \/ Shutdown
    \/ SleepTick
    \/ NoRequest /\ \E c \in Callers, id \in Identifiers : AllowEnter(c, id)
    \/ \E c \in Callers : AllowPrune(c)
    \/ \E c \in Callers : AllowCheck(c)
    \/ \E c \in Callers : AllowReturn(c)
    \/ NoRequest /\ ListProviders
    \/ NoRequest /\ GetProductsCall(<<"goat">>, NoLimit)
    \/ \E page \in CyclePages : GetProductsFetch(1, page, TRUE)
    \/ GetProductsFetch(1, <<>>, FALSE)
    \/ GetProductsReturn
    \/ NoRequest /\ \E provider \in {"", "goat"}, limit \in {NoLimit, <<1>>} :
          GetCachedCall(provider, limit)
    \/ GetCachedFetch

SpecServe == ServeInit /\ [][ServeNext]_vars

(***************************************************************************)
(* Claims about the rate limiter.  rlLog[id] lists the calls for id in     *)
(* the order in which they returned, each with its `now` and its result.   *)
(***************************************************************************)

\* Admitted calls before call j of `log` whose timestamp lies in the closed
\* window [log[j].t - window_seconds, log[j].t].
AdmittedInWindow(log, j) ==
    Cardinality({i \in 1..(j - 1) :
                    log[i].ok /\ log[i].t >= log[j].t - window_seconds})

\* Call s found the bucket empty or fully stale.
FoundStale(log, s) ==
    \A i \in 1..(s - 1) : log[i].ok => log[i].t < log[s].t - window_seconds

\* C4: starting from an empty or fully stale bucket, max_requests calls for
\* one identifier made within one window all return true, and the next call
\* for it within that window returns false.
C4_Theorem ==
    \A id \in Identifiers :
        LET log == rlLog[id] IN
        \A s \in 1..Len(log) :
            FoundStale(log, s) =>
                /\ \A k \in s..(s + max_requests - 1) :
                       (k <= Len(log) /\ log[k].t <= log[s].t + window_seconds)
                           => log[k].ok
                /\ (/\ s + max_requests <= Len(log)
                    /\ log[s + max_requests].t <= log[s].t + window_seconds)
                       => ~log[s + max_requests].ok

\* max_requests admitted calls, then a rejected one exactly window_seconds
\* after the first.
C4_Witness ==
    \E id \in Identifiers :
        LET log == rlLog[id] IN
        /\ Len(log) > max_requests
        /\ \A k \in 1..max_requests : log[k].ok
        /\ ~log[max_requests + 1].ok
        /\ log[max_requests + 1].t = log[1].t + window_seconds

\* C5 as stated: after a rejected call, the next call for the identifier,
\* made at least window_seconds later, returns true.
C5_Original ==
    \A id \in Identifiers :
        LET log == rlLog[id] IN
        \A j \in 1..(Len(log) - 1) :
            (~log[j].ok /\ log[j + 1].t >= log[j].t + window_seconds)
                => log[j + 1].ok

\* C5, amended: after a rejected call, the next call for the identifier,
\* made more than window_seconds later, returns true.
C5_Theorem ==
    \A id \in Identifiers :
        LET log == rlLog[id] IN
        \A j \in 1..(Len(log) - 1) :
            (~log[j].ok /\ log[j + 1].t > log[j].t + window_seconds)
                => log[j + 1].ok

C5_Witness ==
    \E id \in Identifiers :
        LET log == rlLog[id] IN
        \E j \in 1..(Len(log) - 1) :
            /\ ~log[j].ok
            /\ log[j + 1].t > log[j].t + window_seconds
            /\ log[j + 1].ok

\* The bucket a strictly serial execution of the logged calls leaves: the
\* admitted timestamps not older than the last call's cutoff.
RECURSIVE SerialBucket(_, _)
SerialBucket(log, cutoff) ==
    IF log = <<>> THEN <<>>
    ELSE LET rest == SerialBucket(Tail(log), cutoff)
         IN  IF Head(log).ok /\ Head(log).t >= cutoff
             THEN <<Head(log).t>> \o rest
             ELSE rest

\* C6: prune-check-record is atomic per identifier.  At most one task is
\* inside the locked region; every call's result is the one a serial
\* execution in return order gives (so two tasks that both saw
\* max_requests-1 timestamps are never both admitted); and no recorded
\* timestamp is lost.
C6_Theorem ==
    /\ Cardinality(InAllow) <= 1
    /\ \A id \in Identifiers :
          LET log == rlLog[id] IN
          /\ \A j \in 1..Len(log) :
                log[j].ok <=> (AdmittedInWindow(log, j) < max_requests)
          /\ (log # <<>> /\ \A c \in InAllow : rlId[c] # id)
                => rlEvents[id] =
                     SerialBucket(log, log[Len(log)].t - window_seconds)

\* Two different tasks called for one identifier at the same instant with
\* max_requests-1 timestamps recorded: the first was admitted, the second
\* rejected.
C6_Witness ==
    \E id \in Identifiers :
        LET log == rlLog[id] IN
        \E j \in 1..(Len(log) - 1) :
            /\ log[j].by # log[j + 1].by
            /\ log[j].t = log[j + 1].t
            /\ AdmittedInWindow(log, j) = max_requests - 1
            /\ log[j].ok
            /\ ~log[j + 1].ok

(***************************************************************************)
(* Claims about the fan-out (get_products, run_scraping_cycle), under      *)
(* SpecCollect.                                                            *)
(***************************************************************************)

\* The scraper.error events naming provider p in queue after position base.
ErrorEvents(queue, base, p) ==
    {k \in (base + 1)..Len(queue) :
        queue[k].name = "scraper.error" /\ queue[k].provider = p}

Indices(calls, state) == {i \in 1..Len(calls) : calls[i].state = state}

NoDuplicates(s) == \A i, j \in 1..Len(s) : s[i] = s[j] => i = j

\* The request half of C1: a returned request over distinct names maps
\* exactly the providers that succeeded, each to its products, and has one
\* scraper.error event for each provider that failed and none for the others.
RequestSettled ==
    (gpPc = "returned" /\ gpResponse.status = "ok" /\ NoDuplicates(gpSelected))
    => /\ DOMAIN gpResponse.providers =
            {gpSelected[i] : i \in Indices(gpCalls, "ok")}
       /\ \A i \in Indices(gpCalls, "ok") :
            /\ gpResponse.providers[gpSelected[i]] = gpCalls[i].items
            /\ ErrorEvents(tmEvents, gpEvBase, gpSelected[i]) = {}
       /\ \A i \in Indices(gpCalls, "failed") :
            Cardinality(ErrorEvents(tmEvents, gpEvBase, gpSelected[i])) = 1

\* The cycle half of C1: when the cycle is over and the loop sleeps, there is
\* one scraper.error event for each provider whose adapter call failed.
CycleSettled ==
    scPc = "sleep"
    => \A i \in Indices(scCalls, "failed") :
          Cardinality(ErrorEvents(tmEvents, scEvBase, providers[i])) = 1

\* C1: a fan-out over N providers of which M fail still finishes: its result
\* has exactly the N - M providers that succeeded, and exactly one
\* scraper.error event is recorded for each of the M that failed.
C1_Claim == RequestSettled /\ CycleSettled

\* C2: a fan-out returns, records error events or stores products only
\* after every adapter call of its batch has settled: in no reachable state
\* has it gone on while one of its calls is outstanding.
C2_Theorem ==
    /\ gpPc = "returned" => Indices(gpCalls, "pending") = {}
    /\ (\E k \in (gpEvBase + 1)..Len(tmEvents) :
            gpPc # "idle" /\ tmEvents[k].name \in {"scraper.error",
                                                   "api.products"})
       => Indices(gpCalls, "pending") = {}
    /\ scPc \in {"persist", "sleep", "cancelled"}
       => Indices(scCalls, "pending") = {}
    /\ (\E k \in (scEvBase + 1)..Len(tmEvents) :
            scPc # "off" /\ tmEvents[k].name \in {"scraper.error",
                                                  "scraper.cycle"})
       => Indices(scCalls, "pending") = {}
    /\ (thPc = "run" /\ scPc # "off") => Indices(scCalls, "pending") = {}

\* A cycle in which goat's call failed has gone past the gather: goat's
\* error event is recorded and universalstore's batch is being stored.
C2_Witness ==
    /\ scPc = "persist"
    /\ thPc = "run"
    /\ scCalls[1].state = "ok"
    /\ scCalls[2].state = "failed"
    /\ ErrorEvents(tmEvents, scEvBase, "goat") # {}

\* C3: results go with providers by position, whatever the order in which
\* the calls finish: each entry of the result mapping pairs a name with the
\* products of that provider's own adapter, each batch stored for a provider
\* is its own adapter's, and each error event names a provider whose call
\* failed.
C3_Theorem ==
    /\ (gpPc = "returned" /\ gpResponse.status = "ok")
       => /\ \A p \in DOMAIN gpResponse.providers :
               /\ \E i \in Indices(gpCalls, "ok") :
                     /\ gpCalls[i].provider = p
                     /\ gpResponse.providers[p] = gpCalls[i].items
               /\ \A k \in 1..Len(gpResponse.providers[p]) :
                     gpResponse.providers[p][k].provider = p
          /\ \A k \in (gpEvBase + 1)..Len(tmEvents) :
               tmEvents[k].name = "scraper.error"
               => \E i \in Indices(gpCalls, "failed") :
                     gpCalls[i].provider = tmEvents[k].provider
    /\ (scPc = "persist" /\ thPc = "run")
       => /\ scCalls[scI].state = "ok"
          /\ thItems = scCalls[scI].items
          /\ \A k \in 1..Len(thItems) : thItems[k].provider = providers[scI]
    /\ scPc \in {"persist", "sleep"}
       => \A k \in (scEvBase + 1)..Len(tmEvents) :
             tmEvents[k].name = "scraper.error"
             => \E i \in Indices(scCalls, "failed") :
                   scCalls[i].provider = tmEvents[k].provider

\* A request for all three providers, finished in reverse order, one of
\* them failed and the other two with products.
C3_Witness ==
    /\ gpPc = "returned"
    /\ gpResponse.status = "ok"
    /\ gpOrder = <<3, 2, 1>>
    /\ gpCalls[2].state = "failed"
    /\ DOMAIN gpResponse.providers = {"complexshop", "universalstore"}
    /\ Len(gpResponse.providers["complexshop"]) > 0
    /\ Len(gpResponse.providers["universalstore"]) > 0

(***************************************************************************)
(* Claims about the store, under SpecStore.                                *)
(***************************************************************************)

\* The position of the last product of the batch with identity id.
LastOf(items, id) ==
    CHOOSE k \in 1..Len(items) :
        /\ Identity(items[k]) = id
        /\ \A j \in (k + 1)..Len(items) : Identity(items[j]) # id

RowsOf(rows, id) == {r \in rows : Identity(r) = id}

\* Row r holds every field of product p.
Holds(r, p) ==
    /\ r.provider = p.provider /\ r.url = p.url
    /\ r.name = p.name /\ r.price = p.price /\ r.currency = p.currency
    /\ r.images = p.images /\ r.description = p.description
    /\ r.brand = p.brand /\ r.categories = p.categories
    /\ r.attributes = p.metadata /\ r.last_seen = p.last_seen

\* Each write leaves one row of its identity, holding the written product,
\* with the key of the row that was there; what a commit makes durable is,
\* for each identity of the batch, its last write, under the key the
\* identity had before the batch.
C7_Step ==
    /\ (thPc = "run" /\ thPc' = "run" /\ thK' = thK + 1)
       => LET p == thItems[thK]
          IN  /\ Cardinality(RowsOf(dbRows', Identity(p))) = 1
              /\ \A r \in RowsOf(dbRows', Identity(p)) :
                    /\ Holds(r, p)
                    /\ \A b \in RowsOf(dbRows, Identity(p)) : r.id = b.id
    /\ (thPc = "run" /\ thPc' = "ok")
       => \A k \in 1..Len(thItems) :
             LET id == Identity(thItems[k])
             IN  /\ Cardinality(RowsOf(dbRows', id)) = 1
                 /\ \A r \in RowsOf(dbRows', id) :
                       /\ Holds(r, thItems[LastOf(thItems, id)])
                       /\ \A b \in RowsOf(thBase, id) : r.id = b.id

\* C7: upserting a product and then another with the same (provider, url)
\* and different field values, in the same batch or a later one, leaves one
\* row for the identity, holding the second write's name, price, currency,
\* images, description, brand, categories, metadata and last_seen, and
\* keeping the row's primary key.
C7_Theorem == [][C7_Step]_vars

\* A committed batch that wrote one identity twice with different values,
\* the identity stored by an earlier batch with values different again.
C7_Witness ==
    /\ thPc = "ok"
    /\ Len(thItems) = 2
    /\ Identity(thItems[1]) = Identity(thItems[2])
    /\ thItems[1].name # thItems[2].name
    /\ \E b \in RowsOf(thBase, Identity(thItems[2])) :
          /\ b.last_seen # thItems[2].last_seen
          /\ \E r \in dbRows : r.id = b.id /\ Holds(r, thItems[2])

\* C8: in every reachable state of the store no two rows share a
\* (provider, url); after any sequence of committed batches, batches that
\* repeat an identity included, there are as many rows as distinct
\* identities ever committed, and no write is refused as a duplicate.
C8_Theorem ==
    /\ \A r1, r2 \in dbRows : Identity(r1) = Identity(r2) => r1 = r2
    /\ {Identity(r) : r \in Committed} = dbIds
    /\ Cardinality(Committed) = Cardinality(dbIds)
    /\ thPc # "IntegrityError"

\* A second batch committed: its first product was new, its second was
\* stored by the first batch (it keeps the older key), two rows in all.
C8_Witness ==
    /\ thPc = "ok"
    /\ stCount = 2
    /\ Len(thItems) = 2
    /\ Identity(thItems[1]) # Identity(thItems[2])
    /\ RowsOf(thBase, Identity(thItems[1])) = {}
    /\ RowsOf(thBase, Identity(thItems[2])) # {}
    /\ Cardinality(dbRows) = 2

(***************************************************************************)
(* Claims about the scheduler's cycles, under SpecCollect and FairCollect. *)
(***************************************************************************)

\* C9 as stated: the writes of one cycle are all-or-nothing: when a write
\* of the cycle has failed, the store is as it was before the cycle began.
C9_Original ==
    (scPc = "persist" /\ thPc \in ThreadErrors) => dbRows = scDbBase

\* C9 as amended: the writes of one provider's batch are all-or-nothing:
\* when a write of the batch has failed, the store is as it was before that
\* batch began, with the batches committed earlier in the cycle retained.
C9_Theorem ==
    thPc \in ThreadErrors => (dbRows = thBase /\ ~dbJournal.open)

\* universalstore's batch has failed in a cycle that stored complexshop's
\* and goat's: their rows are there, none of universalstore's is.
C9_Witness ==
    /\ scPc = "persist"
    /\ thPc \in ThreadErrors
    /\ scI = 3
    /\ dbRows # scDbBase
    /\ \E r \in dbRows : r.provider = "goat"
    /\ \A r \in dbRows : r.provider # "universalstore"

Raised == scPc = "persist" /\ thPc \in ThreadErrors

\* What the loop does with an exception, and how it goes on: the failure
\* event and a sleep of the interval; the next cycle no sooner than the
\* sleep is over; no way out of the loop but its cancellation at shutdown.
C10_Step ==
    /\ (Raised /\ scPc' # "persist")
       => \/ scPc' = "cancelled"
          \/ /\ scPc' = "sleep"
             /\ tmEvents' = Append(tmEvents,
                               Event("scraper.cycle.error", "", <<>>, 0))
             /\ scWake' = clock + scrape_interval_seconds
    /\ (scPc = "sleep" /\ scPc' = "gather")
       => (clock >= scWake /\ scCycle' = scCycle + 1)
    /\ (scPc' # scPc /\ scPc' \notin {"ready", "gather", "persist", "sleep"})
       => /\ scPc' = "cancelled"
          /\ tmEvents'[Len(tmEvents')].name = "app.shutdown"

\* C10: if the store raises during a cycle, the loop records a failure
\* event, sleeps the configured interval and then starts the next cycle
\* (as long as it is not cancelled, and within MaxCycles cycles); no
\* exception raised inside a cycle terminates the loop.
C10_Theorem ==
    /\ [][C10_Step]_vars
    /\ (Raised /\ scCycle < MaxCycles)
          ~> (scPc = "gather" \/ scPc = "cancelled")

\* The second cycle is under way after a first one that the store failed.
C10_Witness ==
    /\ scPc = "gather"
    /\ scCycle = 2
    /\ clock >= scrape_interval_seconds
    /\ \E k \in 1..Len(tmEvents) : tmEvents[k].name = "scraper.cycle.error"

(***************************************************************************)
(* Claims about the telemetry client, under SpecTelemetry.                 *)
(***************************************************************************)

\* A step that adds to the queue adds one event at its end and touches
\* nothing else of the client.
C13_Step ==
    tmEvents' # tmEvents
    => /\ \E event \in TmInputs : tmEvents' = Append(tmEvents, event)
       /\ UNCHANGED <<tmVars, lmCall, rdVars>>

\* C13: record(event) completes without waiting and without raising, and
\* appends the event to the buffer, in every state: with no sink, with no
\* consumer running, with the consumer stopped, whatever is buffered (up to
\* the MaxEvents events of a run).
C13_Theorem ==
    /\ [](Len(tmEvents) < MaxEvents
            => \A event \in TmInputs : ENABLED TmRecord(event))
    /\ [][C13_Step]_vars

\* No sink, the client stopped, and three events or more in the buffer.
C13_Witness ==
    /\ ~tmEndpoint
    /\ tmLife = "stopped"
    /\ Len(tmEvents) >= 3
    /\ Buffered = 1..Len(tmEvents)

\* C14: with a sink configured the consumer forwards in the order of the
\* records: the events are taken out oldest first, the posts made are in
\* that order, and a post is under way only when all posts before it are
\* over.  Without a sink nothing is taken out or posted.
C14_Theorem ==
    /\ tmTaken = 1..Cardinality(tmTaken)
    /\ \A i, j \in 1..Len(tmSent) : i < j => tmSent[i].k < tmSent[j].k
    /\ tmPc = "post"
       => /\ tmCur \in tmTaken
          /\ \A i \in 1..Len(tmSent) : tmSent[i].k < tmCur
          /\ \A k \in tmTaken \ {tmCur} : \E i \in 1..Len(tmSent) :
                tmSent[i].k = k
    /\ ~tmEndpoint => (tmTaken = {} /\ tmSent = <<>>)

\* Two posts made, the first failed and the second delivered, and the third
\* event under way.
C14_Witness ==
    /\ Len(tmSent) = 2
    /\ tmSent[1].result = "HTTPError"
    /\ tmSent[2].result = "delivered"
    /\ tmPc = "post"
    /\ tmCur = 3

\* C15: no failure while forwarding an event (sink unreachable, sink
\* rejecting the payload, the event failing to serialize) ends the consumer:
\* between start and stop, with a sink configured, the consumer is running.
C15_Claim ==
    (tmEndpoint /\ tmLife = "started") => tmPc \in {"get", "post"}

\* Once stop() is over the consumer takes nothing out and posts nothing,
\* and what is in the buffer stays there; the stop itself takes nothing out,
\* puts nothing back, and ends the post under way as delivered or abandoned.
C16_Step ==
    /\ tmLife \in {"stopped", "stop_raised"}
       => /\ tmTaken' = tmTaken
          /\ tmSent' = tmSent
          /\ tmPc' = tmPc
          /\ tmPc \in {"none", "cancelled", "TypeError"}
    /\ (tmLife = "started" /\ tmLife' # "started")
       => /\ tmTaken' = tmTaken
          /\ tmEvents' = tmEvents
          /\ tmPc' \in {"none", "cancelled", "TypeError"}
          /\ IF tmPc = "post"
             THEN /\ Len(tmSent') = Len(tmSent) + 1
                  /\ tmSent'[Len(tmSent')].k = tmCur
                  /\ tmSent'[Len(tmSent')].result \in {"delivered",
                                                       "abandoned"}
                  /\ SubSeq(tmSent', 1, Len(tmSent)) = tmSent
             ELSE tmSent' = tmSent

\* C16: after stop() has returned the consumer never dequeues another
\* event: events buffered then and events recorded later stay in the buffer
\* and are never forwarded, and an event whose forward was under way is
\* delivered or abandoned, never re-enqueued.
C16_Theorem == [][C16_Step]_vars

\* Stopped during the post of the first event, which was abandoned; an
\* event recorded before the stop and one recorded later are in the buffer.
C16_Witness ==
    /\ tmLife = "stopped"
    /\ tmPc = "cancelled"
    /\ Len(tmSent) = 1
    /\ tmSent[1].result = "abandoned"
    /\ Buffered = {2, 3}

(***************************************************************************)
(* Claims about the scheduler's loop and the request handler, under        *)
(* SpecCollect.                                                            *)
(***************************************************************************)

\* on_shutdown has cancelled the scheduler task and awaited its end.
ShutdownDone ==
    \E k \in 1..Len(tmEvents) : tmEvents[k].name = "app.shutdown"

\* After the cancellation the loop is over: no cycle starts, no adapter call
\* is made or goes on, no batch is handed to the store.  The cancellation
\* itself leaves no adapter call of the cycle outstanding.
C11_Step ==
    /\ ShutdownDone
       => /\ scPc = "cancelled" /\ scPc' = "cancelled"
          /\ scCycle' = scCycle
          /\ scCalls' = scCalls
          /\ ~(thPc # "run" /\ thPc' = "run")
          /\ thPc = "run" => thItems' \in {thItems, <<>>}
    /\ (~ShutdownDone /\ ShutdownDone')
       => /\ scPc' = "cancelled"
          /\ scCycle' = scCycle
          /\ Indices(scCalls', "pending") = {}
          /\ thPc' = thPc

\* C11: once the scheduler task has been cancelled, whether it was
\* collecting, storing or sleeping, the loop exits and no further cycle is
\* started: no adapter call and no new upsert batch begins afterwards.
C11_Theorem == [][C11_Step]_vars

\* Cancelled while goat's batch was being stored, in the first cycle: the
\* worker thread is at its second product, no further batch follows.
C11_Witness ==
    /\ scPc = "cancelled"
    /\ scCycle = 1
    /\ scI = 2
    /\ thPc = "run"
    /\ thK = 2
    /\ scCalls[3].state = "ok"

\* A cycle starts only when the loop is new or its sleep is over, with no
\* adapter call and no store write of the cycle before outstanding; the
\* sleep begins when the cycle's work has settled, lasts the configured
\* interval from then, and its end is not moved.
C12_Step ==
    /\ scCycle' # scCycle
       => /\ scCycle' = scCycle + 1
          /\ Indices(scCalls, "pending") = {}
          /\ thPc # "run"
          /\ scCycle >= 1 => (scPc = "sleep" /\ clock >= scWake)
    /\ (scPc # "sleep" /\ scPc' = "sleep")
       => /\ scWake' = clock + scrape_interval_seconds
          /\ Indices(scCalls', "pending") = {}
          /\ thPc' # "run"
    /\ (scPc = "sleep" /\ scPc' = "sleep")
       => (scWake' = scWake /\ clock' >= clock)

\* C12: cycles never overlap: cycle n+1 starts only after every adapter
\* call and every store write of cycle n has settled and the full interval
\* has then been slept.
C12_Theorem == [][C12_Step]_vars

\* The second cycle is storing a batch, the interval after the first slept.
C12_Witness ==
    /\ scCycle = 2
    /\ scPc = "persist"
    /\ thPc = "run"
    /\ clock >= scWake
    /\ scWake >= scrape_interval_seconds
    /\ \E k \in (scEvBase + 1)..Len(tmEvents) :
          tmEvents[k].name = "scraper.fetch"

\* C17: a request that names a provider not in the registry is rejected as
\* a whole with registry.get's error: no mapping, no adapter call, no event,
\* not even for the registered names of the request; a request that names
\* registered providers only returns a mapping, whatever fails.
C17_Theorem ==
    gpPc = "returned"
    => IF \E i \in 1..Len(gpSelected) : gpSelected[i] \notin Scrapers
       THEN /\ gpResponse = [status |-> "ScraperError", providers |-> <<>>]
            /\ gpCalls = <<>>
            /\ Len(tmEvents) = gpEvBase
       ELSE /\ gpResponse.status = "ok"
            /\ DOMAIN gpResponse.providers =
                  {gpCalls[i].provider : i \in Indices(gpCalls, "ok")}

\* A request for goat and for an unknown name has been rejected.
C17_Witness ==
    /\ gpPc = "returned"
    /\ gpSelected = <<"goat", "nike">>
    /\ gpResponse.status = "ScraperError"

\* The frame half of C18: the rows of a provider whose call failed are as
\* they were when the cycle began, and no batch of its products is stored.
FailedUntouched ==
    (scPc \in {"persist", "sleep"} /\ scCycle >= 1)
    => \A i \in Indices(scCalls, "failed") :
          /\ {r \in dbRows : r.provider = providers[i]} =
                {r \in scDbBase : r.provider = providers[i]}
          /\ thPc = "run"
             => \A k \in 1..Len(thItems) : thItems[k].provider # providers[i]

\* C18: in a cycle, a provider whose adapter call failed causes no store
\* write: its rows are unchanged by the cycle, and the failure's one effect
\* is one scraper.error event.
C18_Claim ==
    /\ FailedUntouched
    /\ (scPc = "sleep" /\ scCycle >= 1)
       => \A i \in Indices(scCalls, "failed") :
             /\ ErrorEvents(tmEvents, scEvBase, providers[i]) # {}
             /\ \A j, k \in ErrorEvents(tmEvents, scEvBase, providers[i]) :
                   j = k

\* Each registered provider has its one call in the cycle, made without a
\* limit (a successful call has the whole page).
CalledOnce ==
    (scPc \in {"gather", "persist", "sleep"} /\ scCycle >= 1)
    => /\ Len(scCalls) = Len(providers)
       /\ \A i \in 1..Len(scCalls) :
             /\ scCalls[i].provider = providers[i]
             /\ scCalls[i].state = "ok"
                => \E page \in CyclePages :
                      Len(scCalls[i].items) = Len(page)

\* C19: in every cycle each registered provider's adapter is invoked once,
\* with no query and no limit, and the products of every provider whose
\* call succeeded are passed to the store in that cycle, whatever happened
\* to the other providers.
C19_Claim ==
    /\ CalledOnce
    /\ (scPc = "sleep" /\ scCycle >= 1)
       => \A i \in Indices(scCalls, "ok") : i <= scI

(***************************************************************************)
(* Claims about last_seen, under SpecStore.                                *)
(***************************************************************************)

\* Every committed identity stays committed with a last_seen no smaller,
\* and every write to a row that is there carries a last_seen no smaller
\* than the row's.
C20_Step ==
    /\ \A r \in Committed : \E r2 \in Committed' :
          Identity(r2) = Identity(r) /\ r2.last_seen >= r.last_seen
    /\ (thPc = "run" /\ thPc' = "run" /\ thK' = thK + 1)
       => \A b \in RowsOf(dbRows, Identity(thItems[thK])) :
             thItems[thK].last_seen >= b.last_seen

\* C20: for every stored identity last_seen never decreases over the life
\* of the store: each committed write to an existing row carries a
\* last_seen no smaller than the one it overwrites, across batches and for
\* repeated identities inside one batch.
C20_Theorem == [][C20_Step]_vars

\* goat's second batch is committed: it wrote twice a row that the first
\* batch had stored, whose last_seen has grown.
C20_Witness ==
    /\ thPc = "ok"
    /\ stCount = 2
    /\ Len(thItems) = 2
    /\ thItems[1].provider = "goat"
    /\ Identity(thItems[1]) = Identity(thItems[2])
    /\ \E b \in RowsOf(thBase, Identity(thItems[1])) :
          \E r \in RowsOf(dbRows, Identity(thItems[1])) :
             r.last_seen > b.last_seen

\* ---------------------------------------------------------------------
\* Rate limiter: what a call leaves in its bucket
\* ---------------------------------------------------------------------

\* bucket is old with some leading timestamps older than cutoff removed.
PrunedFrom(old, bucket, cutoff) ==
    \E k \in 0..Len(old) :
        /\ bucket = SubSeq(old, k + 1, Len(old))
        /\ \A i \in 1..k : old[i] < cutoff

\* The admitted calls of log[1..j-1] whose timestamps are not older than
\* cutoff.
AdmittedSince(log, j, cutoff) ==
    Cardinality({i \in 1..(j - 1) : log[i].ok /\ log[i].t >= cutoff})

\* One call of allow: its pruning removes only timestamps older than its
\* cutoff, its check changes nothing, and its return appends its own now
\* when it was admitted and nothing when it was rejected.
C25_Step ==
    \A c \in Callers :
        LET id == rlId[c] IN
        /\ (rlPc[c] = "prune" /\ rlPc'[c] = "check")
           => PrunedFrom(rlEvents[id], rlEvents'[id],
                         rlNow[c] - window_seconds)
        /\ (rlPc[c] = "check" /\ rlPc'[c] = "return")
           => rlEvents' = rlEvents
        /\ (rlPc[c] = "return" /\ rlPc'[c] = "idle")
           => LET call == rlLog'[id][Len(rlLog'[id])] IN
              /\ call.t = rlNow[c]
              /\ call.ok => rlEvents'[id] = Append(rlEvents[id], call.t)
              /\ ~call.ok => rlEvents' = rlEvents

\* After a rejected call j, a later call k with only rejected calls in
\* between is admitted exactly when fewer than max_requests of the calls
\* admitted before j are still inside k's window: the rejected calls
\* count for nothing.
ReadmissionNotPostponed ==
    \A id \in Identifiers :
        LET log == rlLog[id] IN
        \A j \in 1..Len(log) : \A k \in (j + 1)..Len(log) :
            (~log[j].ok /\ \A i \in (j + 1)..(k - 1) : ~log[i].ok)
                => (log[k].ok <=>
                      AdmittedSince(log, j, log[k].t - window_seconds)
                          < max_requests)

\* C25: a rejected allow call records nothing; apart from pruning stale
\* timestamps it leaves the bucket unchanged, so repeated rejected calls
\* never postpone the moment of re-admission; an accepted call appends
\* exactly one timestamp, equal to its now.
C25_Theorem == [][C25_Step]_vars /\ []ReadmissionNotPostponed

\* max_requests admitted calls, a rejected one, and then an admitted one
\* whose timestamp is the only one its bucket holds.
C25_Witness ==
    \E id \in Identifiers :
        LET log == rlLog[id] IN
        /\ Len(log) = max_requests + 2
        /\ \A i \in 1..max_requests : log[i].ok
        /\ ~log[max_requests + 1].ok
        /\ log[max_requests + 2].ok
        /\ rlEvents[id] = <<log[max_requests + 2].t>>
        /\ InAllow = {}

NonDecreasing(bucket) ==
    \A i \in 1..(Len(bucket) - 1) : bucket[i] <= bucket[i + 1]

\* The admitted calls of log with a timestamp in [from, from + window_seconds].
AdmittedBetween(log, from) ==
    Cardinality({j \in 1..Len(log) :
                    /\ log[j].ok
                    /\ from <= log[j].t
                    /\ log[j].t <= from + window_seconds})

BucketsBounded ==
    \A id \in Identifiers :
        /\ Len(rlEvents[id]) <= max_requests
        /\ NonDecreasing(rlEvents[id])
        /\ \A from \in 0..MaxTime :
              AdmittedBetween(rlLog[id], from) <= max_requests

\* A bucket changes only in a step of a call made for its identifier.
C26_Step ==
    \A id \in Identifiers :
        rlEvents'[id] # rlEvents[id]
            => \E c \in Callers : rlPc[c] # "idle" /\ rlId[c] = id

\* C26: every bucket holds at most max_requests timestamps, in
\* non-decreasing order; for every identifier the admitted calls inside any
\* closed interval of length window_seconds number at most max_requests;
\* and a call for one identifier never changes another identifier's bucket.
C26_Theorem == []BucketsBounded /\ [][C26_Step]_vars

\* One identifier's bucket is full, its first and last timestamps exactly
\* window_seconds apart, while the other identifier has been admitted too.
C26_Witness ==
    \E id \in Identifiers : \E other \in Identifiers \ {id} :
        /\ Len(rlEvents[id]) = max_requests
        /\ rlEvents[id][max_requests] = rlEvents[id][1] + window_seconds
        /\ rlEvents[other] # <<>>
        /\ InAllow = {}

\* ---------------------------------------------------------------------
\* The store: the count upsert_products returns
\* ---------------------------------------------------------------------

\* The stored rows a batch wrote to.
RowsTouched(items, rows) ==
    {r \in rows : \E k \in 1..Len(items) : Identity(items[k]) = Identity(r)}

DistinctIdentities(items) ==
    \A i, j \in 1..Len(items) :
        i # j => Identity(items[i]) # Identity(items[j])

\* C22 as stated: the count returned is the number of stored rows the
\* batch touched.
C22_Original ==
    thPc = "ok" => thCount = Cardinality(RowsTouched(thItems, dbRows))

\* C22, amended: upsert_products returns the number of products of the
\* batch, one for every insert or update it made and not distinguishing
\* the two, so a row the batch writes more than once is counted once per
\* write; for a batch whose products all have distinct identities this is
\* the number of stored rows touched, and the batch size.
C22_Theorem ==
    /\ thPc = "run" => thCount = thK - 1
    /\ thPc = "ok" =>
          /\ thCount = Len(thItems)
          /\ thCount >= Cardinality(RowsTouched(thItems, dbRows))
          /\ DistinctIdentities(thItems)
                => thCount = Cardinality(RowsTouched(thItems, dbRows))

\* A committed second batch of two distinct products, one a row the first
\* batch had stored and one new: one update and one insert, count two.
C22_Witness ==
    /\ thPc = "ok"
    /\ stCount = 2
    /\ Len(thItems) = 2
    /\ DistinctIdentities(thItems)
    /\ thCount = 2
    /\ Cardinality(RowsTouched(thItems, thBase)) = 1
    /\ Cardinality(RowsTouched(thItems, dbRows)) = 2

\* ---------------------------------------------------------------------
\* The scheduler: the cycle's summary event
\* ---------------------------------------------------------------------

\* The positions of the events of one name recorded since the cycle began.
CycleEvents(name) ==
    {k \in (scEvBase + 1)..Len(tmEvents) : tmEvents[k].name = name}

\* The counts upsert_products returns for the batches of the providers
\* whose call succeeded: one per product.
UpsertCounts ==
    [i \in 1..Len(scCalls) |->
        IF scCalls[i].state = "ok" THEN Len(scCalls[i].items) ELSE 0]

\* The cycle's last event is its one summary: recorded with no upsert
\* under way, every succeeded provider's batch committed, naming the whole
\* registry and the sum of the upserts' counts.
SummaryRecorded ==
    /\ CycleEvents("scraper.cycle") = {Len(tmEvents)}
    /\ CycleEvents("scraper.cycle.error") = {}
    /\ thPc # "run" /\ ~dbJournal.open
    /\ \A i \in Indices(scCalls, "ok") : \A k \in 1..Len(scCalls[i].items) :
          Identity(scCalls[i].items[k]) \in dbIds
    /\ tmEvents[Len(tmEvents)].providers = providers
    /\ tmEvents[Len(tmEvents)].n = SumSeq(UpsertCounts)
    /\ scStored = SumSeq(UpsertCounts)

Running == scPc \in {"ready", "gather", "persist", "sleep"}

\* The places the task can be at: not yet created, in the loop, or
\* cancelled.
NoTerminalState ==
    scPc \in {"off", "ready", "gather", "persist", "sleep", "cancelled"}

\* Running-Cycle and Sleeping alternate: the loop leaves a cycle for the
\* sleep or by cancellation, and leaves the sleep for the next cycle or by
\* cancellation.
C24_Step ==
    /\ (scPc \in {"gather", "persist"} /\ scPc' \notin {"gather", "persist"})
          => scPc' \in {"sleep", "cancelled"}
    /\ (scPc = "sleep" /\ scPc' # "sleep")
          => \/ scPc' = "cancelled"
             \/ scPc' = "gather" /\ scCycle' = scCycle + 1

\* C24: the scheduler loop has no terminal state other than cancellation:
\* provided every adapter call and store write settles and the task is not
\* cancelled, Running-Cycle and Sleeping alternate and cycle after cycle
\* starts (every cycle up to MaxCycles, the number the model follows).
C24_Theorem ==
    /\ []NoTerminalState
    /\ [][C24_Step]_vars
    /\ Running ~> (scCycle = MaxCycles \/ scPc = "cancelled")

\* The loop sleeps after its last cycle, never cancelled.
C24_Witness ==
    /\ scPc = "sleep"
    /\ scCycle = MaxCycles
    /\ CycleEvents("scraper.cycle") # {}
    /\ \A k \in 1..Len(tmEvents) : tmEvents[k].name # "app.shutdown"

\* ---------------------------------------------------------------------
\* Telemetry: the one consumer task
\* ---------------------------------------------------------------------

\* There is a consumer task exactly when one was created, one at most, and
\* only with an endpoint; without an endpoint nothing has left the buffer.
OneConsumer ==
    /\ tmTasks <= 1
    /\ tmTasks = 1 <=> tmPc # "none"
    /\ tmTasks = 1 => (tmEndpoint /\ Starts >= 1)
    /\ ~tmEndpoint => (tmTaken = {} /\ Cardinality(Buffered) = Len(tmEvents))

\* A task is created by a start(), with an endpoint and no task created
\* before, and every such start() creates one; any other start(), repeated
\* or after stop(), leaves the consumer as it is.
C27_Step ==
    /\ tmTasks' # tmTasks
          => /\ tmCalls' = Append(tmCalls, "start")
             /\ tmEndpoint /\ tmTasks = 0
             /\ tmTasks' = 1 /\ tmPc' = "get"
    /\ (tmCalls' = Append(tmCalls, "start") /\ tmEndpoint /\ tmTasks = 0)
          => tmTasks' = 1
    /\ (tmCalls' = Append(tmCalls, "start") /\ tmTasks' = tmTasks)
          => tmPc' = tmPc

\* C27: at most one telemetry consumer task exists over the life of a
\* client: start() creates one only when an endpoint is configured and none
\* was created before; a repeated start() creates no second one; start()
\* after stop() creates none; and with no endpoint no event is ever
\* dequeued, so the buffer holds as many events as were recorded.
C27_Theorem == []OneConsumer /\ [][C27_Step]_vars

\* With an endpoint: start() twice, stop(), start() again, and the one
\* task ever created is the cancelled one.
C27_Witness ==
    /\ tmEndpoint
    /\ tmCalls = <<"start", "start", "stop", "start">>
    /\ tmTasks = 1
    /\ tmPc = "cancelled"
    /\ Buffered # {}

\* ---------------------------------------------------------------------
\* The adapters' _limit
\* ---------------------------------------------------------------------

Min(a, b) == IF a < b THEN a ELSE b

RequestStep ==
    rlVars' # rlVars \/ gpVars' # gpVars \/ rdVars' # rdVars

\* One transaction at most is open, the running upsert's, and none is left
\* open by an upsert that is over.
OneTransaction == dbJournal.open <=> thPc = "run"

\* Requests leave the store alone; rows are written only by the cycle's
\* upsert inside its transaction; a transaction is begun only by the
\* cycle, with none open; none is begun while one is open; and an open
\* transaction ends by one commit, keeping its writes, or by one rollback,
\* undoing them, after which the session is gone.
C28_Step ==
    /\ RequestStep => UNCHANGED dbVars
    /\ dbRows' # dbRows
          => /\ dbJournal.open /\ thPc = "run"
             /\ scPc \in {"persist", "cancelled"}
             /\ ~RequestStep
    /\ Committed' # Committed => (thPc = "run" /\ thPc' = "ok")
    /\ (~dbJournal.open /\ dbJournal'.open)
          => /\ thPc # "run" /\ thPc' = "run"
             /\ scPc' = "persist"
             /\ dbJournal'.rows = dbRows
    /\ (dbJournal.open /\ dbJournal'.open)
          => (dbJournal' = dbJournal /\ thItems' = thItems)
    /\ (dbJournal.open /\ ~dbJournal'.open)
          => \/ thPc' = "ok" /\ dbRows' = dbRows
             \/ thPc' \in ThreadErrors /\ dbRows' = dbJournal.rows

\* C28: only the scheduler cycle writes to the store: get_products,
\* get_cached_products, list_providers and the rate-limit check leave
\* every stored row unchanged in every interleaving with a running cycle;
\* at most one upsert transaction is open at any time, and each opened
\* transaction ends with exactly one commit or one rollback, and the close.
C28_Theorem == []OneTransaction /\ [][C28_Step]_vars

\* A cached read has returned rows while the upsert of a later provider
\* has its transaction open with rows written and not yet committed.
C28_Witness ==
    /\ rdPc = "returned"
    /\ rdResult # {}
    /\ scPc = "persist"
    /\ dbJournal.open
    /\ dbRows # dbJournal.rows
    /\ \A d \in rdResult : \E r \in dbJournal.rows : d = RecordToDict(r)

====
